---- MODULE Spec2Model ----
(***************************************************************************)
(* Deep Q-learning notebook (src/lecture_notebook.ipynb): the experience   *)
(* replay store (ReplayBuffer), the training loop with its online and      *)
(* target parameters, the frame stack (BufferWrapper) and the wrapped      *)
(* environment (make_env).                                                 *)
(*                                                                         *)
(* Four specifications share the variables below:                          *)
(*   SpecStore  a ReplayBuffer driven by arbitrary append / sample calls   *)
(*   SpecTrain  the training loop of the notebook                          *)
(*   SpecStack  a BufferWrapper driven by arbitrary reset / step calls     *)
(*   SpecEnv    the environment of make_env driven by arbitrary reset /    *)
(*              step calls, down to the raw simulator steps                *)
(* A specification leaves the variables of the others at their initial     *)
(* values.                                                                 *)
(***************************************************************************)
EXTENDS Integers, Sequences, FiniteSets, TLC

VARIABLES
    \* ---- ReplayBuffer (SpecStore, SpecTrain)
    buffer,         \* ReplayBuffer.buffer: the deque's items, oldest first
    maxlen,         \* the deque's maxlen (the capacity given to ReplayBuffer)
    appended,       \* history: every experience ever passed to append, in order
    asked,          \* batch_size of the last sample call (-1: no call yet)
    result          \* outcome of the last sample call

storeVars == <<buffer, maxlen, appended, asked, result>>

VARIABLES
    \* ---- training loop (SpecTrain)
    pc,             \* position in the training cell
    frame_idx,      \* frame_idx
    epsilon,        \* epsilon, in units of 1 / (100 * EPS_DECAY)
    action,         \* action: the action of the last environment step
    state,          \* state: the observation the next action is chosen from
    total_reward,   \* total_reward: return of the running episode
    total_rewards,  \* total_rewards: returns of the finished episodes
    q_params,       \* q_network's parameters
    target_params,  \* target_network's parameters
    upd,            \* locals of the update of the running iteration
    saved,          \* the parameters written by torch.save (<<>>: nothing yet)
    q_init,         \* history: q_network's parameters at construction
    lastSync,       \* history: frame_idx of the last in-loop target sync (0: none)
    nUpdates,       \* history: number of optimizer steps so far
    solved,         \* history: "Environment is solved" was printed
    stepLog,        \* history: reward and done of every env.step so far
    load            \* history: the last load_state_dict into the target network

trainVars == <<pc, frame_idx, epsilon, action, state, total_reward, total_rewards,
               q_params, target_params, upd, saved, q_init, lastSync, nUpdates, solved,
               stepLog, load>>

VARIABLES
    \* ---- BufferWrapper (SpecStack)
    stack,          \* BufferWrapper.buffer, oldest frame first (<<>>: not yet set)
    calls           \* history: the reset / step calls made, with the frame each got

stackVars == <<stack, calls>>

VARIABLES
    \* ---- the environment built by make_env (SpecEnv)
    epc,            \* position in the running reset / step call ("idle": none)
    sim_done,       \* the simulator's episode has terminated and was not reset
    sim_frame,      \* the raw frame the simulator produced last
    obs_buffer,     \* MaxAndSkipEnv._obs_buffer: the last raw frames, oldest first
    skip,           \* locals of the running MaxAndSkipEnv.step
    heap,           \* the numpy arrays allocated so far, by reference
    buffer_ref,     \* BufferWrapper.buffer: a reference into heap (0: not yet set)
    ret,            \* what the last finished call returned
    rawLog,         \* history: the simulator calls of the running or last call
    held,           \* history: each returned observation, with its value then
    ncalls,         \* history: number of reset / step calls so far
    frame_before    \* history: sim_frame when the running or last call began

envVars == <<epc, sim_done, sim_frame, obs_buffer, skip, heap, buffer_ref, ret,
             rawLog, held, ncalls, frame_before>>

vars == <<storeVars, trainVars, stackVars, envVars>>

(***************************************************************************)
(* Bounds of the model                                                     *)
(***************************************************************************)
\* largest capacity a ReplayBuffer is constructed with in SpecStore
MaxCap == 3
\* number of append calls explored in SpecStore
MaxAppends == 5
\* number of reset / step calls explored in SpecStack
MaxCalls == 6

\* The hyperparameters of the notebook, scaled down so that warm-up, target
\* syncs, eviction and the end of training all happen within a few frames.
\* Their order is the source's:
\*   BATCH_SIZE <= TARGET_UPDATE < INITIAL_MEMORY = REPLAY_MEMORY < total_frames
\* BATCH_SIZE = 32 in the source
BATCH_SIZE == 2
\* TARGET_UPDATE = 1000 in the source
TARGET_UPDATE == 2
\* INITIAL_MEMORY = 10000 in the source
INITIAL_MEMORY == 3
\* REPLAY_MEMORY = 10000 in the source
REPLAY_MEMORY == 3
\* total_frames = 1000000 in the source
total_frames == 5
\* EPS_DECAY = 100000 in the source
EPS_DECAY == 4
\* the solved threshold, doubled: avg_reward > 19.5 in the source
SOLVED_X2 == 3
\* the number of episodes averaged: total_rewards[-100:] in the source
AVG_WINDOW == 2

\* GAMMA = 0.99, EPS_START = 1.0 and EPS_END = 0.02, in hundredths
GAMMA_PCT == 99
EPS_START_PCT == 100
EPS_END_PCT == 2

Min(a, b) == IF a <= b THEN a ELSE b

\* s[-k:] of a Python list: the last k items, or all of them when fewer
LastKOrAll(s, k) == SubSeq(s, Len(s) - Min(k, Len(s)) + 1, Len(s))

(***************************************************************************)
(* Experience = namedtuple('Experience',                                   *)
(*                  ['state', 'action', 'reward', 'done', 'new_state'])    *)
(***************************************************************************)
Experience(s, a, r, d, ns) ==
    [state |-> s, action |-> a, reward |-> r, done |-> d, new_state |-> ns]

\* The experiences the callers of SpecStore append: every field takes more
\* than one value and state differs from new_state, so that a batch which
\* mixes up fields or rows is told apart from a correct one.
StoreExperiences ==
    { Experience(1, 0, 0, FALSE, 2),
      Experience(2, 1, 1, FALSE, 3),
      Experience(3, 0, -1, TRUE, 1) }

(***************************************************************************)
(* collections.deque(maxlen=capacity).append(x): append on the right; a    *)
(* full deque discards one item from the left. A deque of maxlen 0 stays   *)
(* empty.                                                                  *)
(***************************************************************************)
\* variant: a deque that never discards
DequeAppendNoEvict(dq, cap, x) == Append(dq, x)

\* variant: a full deque discards its newest item instead of its oldest
DequeAppendDropNewest(dq, cap, x) ==
    IF cap = 0 THEN dq
    ELSE IF Len(dq) >= cap THEN SubSeq(dq, 1, Len(dq) - 1) \o <<x>>
    ELSE Append(dq, x)

\* the code: deque(maxlen=cap).append(x)
DequeAppend(dq, cap, x) ==
    IF cap = 0 THEN dq
    ELSE IF Len(dq) >= cap THEN Tail(dq) \o <<x>>
    ELSE Append(dq, x)

(***************************************************************************)
(* np.random.choice(n, k, replace=False): k pairwise distinct indices of   *)
(* 0..n-1 in any order; raises ValueError when k > n. The set is empty     *)
(* exactly when the call raises.                                           *)
(***************************************************************************)
RandomChoice(n, k) ==
    IF k > n \/ k < 0 THEN {}
    ELSE { idx \in [1..k -> 0..(n - 1)] :
             \A i, j \in 1..k : i # j => idx[i] # idx[j] }

\* a raised exception: nothing is returned
Raised ==
    [status |-> "error", states |-> <<>>, actions |-> <<>>, rewards |-> <<>>,
     dones |-> <<>>, next_states |-> <<>>]

\* zip(*rows) unpacked into five names, then one array per name. With no
\* rows zip() yields nothing and the unpacking raises ValueError.
Unzip5(rows) ==
    IF Len(rows) = 0 THEN Raised
    ELSE [status      |-> "ok",
          states      |-> [i \in 1..Len(rows) |-> rows[i].state],
          actions     |-> [i \in 1..Len(rows) |-> rows[i].action],
          rewards     |-> [i \in 1..Len(rows) |-> rows[i].reward],
          dones       |-> [i \in 1..Len(rows) |-> IF rows[i].done THEN 1 ELSE 0],
          next_states |-> [i \in 1..Len(rows) |-> rows[i].new_state]]

(***************************************************************************)
(* ReplayBuffer.sample(batch_size): the set of outcomes the call can have. *)
(***************************************************************************)
\* variant: an oversized request is cut down to the size of the store
SampleOutcomesClamped(buf, batch_size) ==
    LET k == Min(batch_size, Len(buf)) IN
    { Unzip5([i \in 1..k |-> buf[idx[i] + 1]]) : idx \in RandomChoice(Len(buf), k) }

\* the code: choice raises, or the chosen rows are unzipped
SampleOutcomes(buf, batch_size) ==
    IF RandomChoice(Len(buf), batch_size) = {} THEN { Raised }
    ELSE { Unzip5([i \in 1..batch_size |-> buf[idx[i] + 1]]) :
             idx \in RandomChoice(Len(buf), batch_size) }

\* no load_state_dict yet
NoLoad == [q |-> 0, updates |-> 0]

\* the training-loop variables while no training cell runs
NoUpdate == [ran |-> FALSE, q_before |-> 0, expected |-> <<>>]

TrainIdle ==
    /\ pc = "idle" /\ frame_idx = 0 /\ epsilon = 0 /\ action = 0 /\ state = 0
    /\ total_reward = 0 /\ total_rewards = <<>>
    /\ q_params = 0 /\ target_params = 0
    /\ upd = NoUpdate /\ saved = <<>>
    /\ q_init = 0 /\ lastSync = 0 /\ nUpdates = 0 /\ solved = FALSE
    /\ stepLog = <<>> /\ load = NoLoad

\* the BufferWrapper variables while no wrapper is in use
StackIdle == stack = <<>> /\ calls = <<>>

\* the locals of MaxAndSkipEnv.step while it does not run
NoSkip == [action |-> 0, i |-> 0, total_reward |-> 0, done |-> FALSE]

\* no raw frame: the simulator has not been reset yet
NoFrame == [shape |-> <<>>, rgb |-> <<>>]

\* nothing returned yet
NoRet == [op |-> "none", action |-> 0, obs |-> 0, reward |-> 0, done |-> FALSE]

\* the environment variables while no environment is in use
EnvIdle ==
    /\ epc = "off" /\ sim_done = FALSE /\ obs_buffer = <<>> /\ skip = NoSkip
    /\ heap = <<>> /\ buffer_ref = 0 /\ ret = NoRet
    /\ rawLog = <<>> /\ held = <<>> /\ ncalls = 0
    /\ sim_frame = NoFrame /\ frame_before = NoFrame

(***************************************************************************)
(* SpecStore: one ReplayBuffer, any sequence of append and sample calls    *)
(***************************************************************************)
NoResult ==
    [status |-> "none", states |-> <<>>, actions |-> <<>>, rewards |-> <<>>,
     dones |-> <<>>, next_states |-> <<>>]

\* ReplayBuffer.__init__(capacity)
StoreInit ==
    /\ maxlen \in 0..MaxCap
    /\ buffer = <<>>
    /\ appended = <<>>
    /\ asked = -1
    /\ result = NoResult
    /\ TrainIdle /\ StackIdle /\ EnvIdle

\* ReplayBuffer.append(experience)
StoreAppend ==
    /\ Len(appended) < MaxAppends
    /\ \E e \in StoreExperiences :
         /\ buffer' = DequeAppend(buffer, maxlen, e)
         /\ appended' = Append(appended, e)
    /\ UNCHANGED <<maxlen, asked, result>>
    /\ UNCHANGED <<trainVars, stackVars, envVars>>

\* ReplayBuffer.sample(batch_size)
StoreSample ==
    /\ \E batch_size \in 0..(MaxCap + 1) :
         /\ asked' = batch_size
         /\ result' \in SampleOutcomes(buffer, batch_size)
    /\ UNCHANGED <<buffer, maxlen, appended>>
    /\ UNCHANGED <<trainVars, stackVars, envVars>>

StoreNext == StoreAppend \/ StoreSample

SpecStore == StoreInit /\ [][StoreNext]_vars

(***************************************************************************)
(* The training loop                                                       *)
(***************************************************************************)
Max(a, b) == IF a >= b THEN a ELSE b

\* What the external collaborators hand to the loop: the observations of
\* the environment pipeline, the actions of env.action_space and the values
\* a parameter set can take.
Obs == {1, 2}
Actions == {0, 1}
Params == {0, 1}

\* env.step(action): what the environment can answer, (next_state, reward,
\* done). Both observations, both rewards and both flags occur.
EnvResponses ==
    { [next_state |-> 1, reward |-> 0, done |-> FALSE],
      [next_state |-> 2, reward |-> 1, done |-> FALSE],
      [next_state |-> 2, reward |-> 1, done |-> TRUE] }

\* env.reset(): the first observation of an episode
ResetObs == {1}

\* DQN.forward: one value per action, a function of the parameters and the
\* observation. The tensor math is opaque to the model; this table stands
\* for it (values in -1..1, different for different parameters).
Forward(p, s) == [a \in Actions |-> (((p + 1) * (s + a)) % 3) - 1]

\* x.max(1)[0]: the largest of the action values
MaxQ(p, s) ==
    CHOOSE v \in {Forward(p, s)[a] : a \in Actions} :
        \A a \in Actions : Forward(p, s)[a] <= v

\* torch.max(q_vals_v, dim=1)[1]: an action of maximal value
Greedy(p, s) == {a \in Actions : Forward(p, s)[a] = MaxQ(p, s)}

\* epsilon = max(EPS_END, EPS_START - frame_idx / EPS_DECAY),
\* in units of 1 / (100 * EPS_DECAY)
\* variant: the decay counts the steps before the current one
EpsilonFromStart(f) ==
    Max(EPS_END_PCT * EPS_DECAY, EPS_START_PCT * EPS_DECAY - 100 * (f - 1))

\* the code: frame_idx has been incremented before epsilon is computed
Epsilon(f) ==
    Max(EPS_END_PCT * EPS_DECAY, EPS_START_PCT * EPS_DECAY - 100 * f)

\* The epsilon-greedy choice: np.random.random() lies in [0, 1), so the
\* random branch can be taken when eps > 0 and the greedy one when eps < 1.
SelectAction(eps, p, s) ==
    (IF eps > 0 THEN Actions ELSE {})
      \cup (IF eps < 100 * EPS_DECAY THEN Greedy(p, s) ELSE {})

RECURSIVE SumSeq(_)
SumSeq(s) == IF s = <<>> THEN 0 ELSE Head(s) + SumSeq(Tail(s))

\* avg_reward = np.mean(total_rewards[-100:]); avg_reward > 19.5
\* variant: an average equal to the threshold counts as solved
SolvedAtLeast(returns) ==
    LET w == LastKOrAll(returns, AVG_WINDOW) IN
    2 * SumSeq(w) >= SOLVED_X2 * Len(w)

\* the code: the average is strictly above the threshold
Solved(returns) ==
    LET w == LastKOrAll(returns, AVG_WINDOW) IN
    2 * SumSeq(w) > SOLVED_X2 * Len(w)

\* The statements of the loop body after the warm-up test, in the order of
\* the source: the position that follows each position
\* variant: the target sync stands after the optimizer step
BodyOrderSyncLast(p) ==
    CASE p = "gate" -> "learn" [] p = "learn" -> "opt" [] p = "opt" -> "sync"
      [] OTHER -> "end"

\* the code: sync (lines 702-703), sample and targets (705-722), loss and
\* optimizer step (724-726), end of the body
BodyOrder(p) ==
    CASE p = "gate" -> "sync" [] p = "sync" -> "learn" [] p = "learn" -> "opt"
      [] OTHER -> "end"

\* while frame_idx < total_frames: the loop test
\* variant: a loop without a step budget
LoopRunsForever(f) == TRUE

\* the code: the body runs while the counter is below the budget
LoopRuns(f) == f < total_frames

\* state = next_state; if done: state = env.reset(): the observation the
\* next action is chosen from, reset_obs being what env.reset() returns
\* variant: the observation of the reset is not taken
NextStateNoReset(next_state, done, reset_obs) == next_state

\* the code: the reset observation replaces next_state at a boundary
NextState(next_state, done, reset_obs) == IF done THEN reset_obs ELSE next_state

\* total_reward += reward; if done: total_rewards.append(total_reward);
\* total_reward = 0.0: the list of returns and the running return after a
\* step with the given reward and done flag
\* variant: the running return is carried over into the next episode
BookkeepingNoReset(returns, running, reward, done) ==
    IF done
    THEN [total_rewards |-> Append(returns, running + reward),
          total_reward |-> running + reward]
    ELSE [total_rewards |-> returns, total_reward |-> running + reward]

\* the code: the return is recorded and the running return starts again
Bookkeeping(returns, running, reward, done) ==
    IF done
    THEN [total_rewards |-> Append(returns, running + reward), total_reward |-> 0]
    ELSE [total_rewards |-> returns, total_reward |-> running + reward]

\* if avg_reward > 19.5: print("Environment is solved ..."); break
\* the position the loop body goes to after the bookkeeping of a finished
\* episode
\* variant: the loop goes on after the message
AfterEpisodeNoBreak(isSolved) == "gate"

\* the code: break leaves the loop for torch.save
AfterEpisode(isSolved) == IF isSolved THEN "save" ELSE "gate"

\* len(replay_buffer) < INITIAL_MEMORY: continue
\* variant: no warm-up gate
WarmupPassedAlways(n) == TRUE

\* variant: learning starts one transition late
WarmupPassedAbove(n) == n > INITIAL_MEMORY

\* variant: learning starts one transition early
WarmupPassedEarly(n) == ~(n < INITIAL_MEMORY - 1)

\* the code: not (len(replay_buffer) < INITIAL_MEMORY)
WarmupPassed(n) == ~(n < INITIAL_MEMORY)

\* frame_idx % TARGET_UPDATE == 0
\* variant: the sync is never due
SyncDueNever(f) == FALSE

\* variant: the period is one step longer
SyncDueLongerPeriod(f) == f % (TARGET_UPDATE + 1) = 0

\* the code: frame_idx % TARGET_UPDATE == 0
SyncDue(f) == f % TARGET_UPDATE = 0

\* target_network.load_state_dict(q_network.state_dict()): the new target
\* parameters
\* variant: the copy does not take place
LoadStateDictKeep(q, t) == t

\* the code: the target parameters become a copy of the online ones
LoadStateDict(q, t) == q

\* expected_state_action_values: per sampled transition, in hundredths,
\*   next_state_values = target_network(next_states_v).max(1)[0]
\*   next_state_values[done_mask] = 0.0
\*   next_state_values * GAMMA + rewards_v
\* variant: the done mask is not applied
ExpectedValuesNoMask(batch, q, t) ==
    [i \in 1..Len(batch.rewards) |->
        MaxQ(t, batch.next_states[i]) * GAMMA_PCT + 100 * batch.rewards[i]]

\* variant: the bootstrap value comes from the online network
ExpectedValuesOnline(batch, q, t) ==
    [i \in 1..Len(batch.rewards) |->
        (IF batch.dones[i] # 0 THEN 0 ELSE MaxQ(q, batch.next_states[i]))
            * GAMMA_PCT + 100 * batch.rewards[i]]

\* the code: target network, done mask, then * GAMMA + rewards
ExpectedValues(batch, q, t) ==
    [i \in 1..Len(batch.rewards) |->
        (IF batch.dones[i] # 0 THEN 0 ELSE MaxQ(t, batch.next_states[i]))
            * GAMMA_PCT + 100 * batch.rewards[i]]

\* optimizer.step() of optim.Adam(q_network.parameters()): the parameters
\* of both networks after the step, new being the value the step gives the
\* optimised ones
\* variant: the optimizer also holds the target network's parameters
OptimizerStepBoth(q, t, new) == [q |-> new, t |-> new]

\* the code: the optimizer holds q_network.parameters() only
OptimizerStep(q, t, new) == [q |-> new, t |-> t]

\* the hyperparameter cell followed by state = env.reset()
TrainInit ==
    /\ buffer = <<>> /\ maxlen = REPLAY_MEMORY
    /\ appended = <<>> /\ asked = -1 /\ result = NoResult
    /\ pc = "loop"
    /\ frame_idx = 0
    /\ epsilon = 0 /\ action = 0
    /\ state \in ResetObs
    /\ total_reward = 0 /\ total_rewards = <<>>
    /\ q_params \in Params
    /\ \E t0 \in Params : target_params = LoadStateDict(q_params, t0)
    /\ q_init = q_params
    /\ upd = NoUpdate /\ saved = <<>>
    /\ lastSync = 0 /\ nUpdates = 0 /\ solved = FALSE
    /\ stepLog = <<>>
    /\ load = [q |-> q_params, updates |-> 0]
    /\ StackIdle /\ EnvIdle

\* while frame_idx < total_frames: one pass from the loop test to the
\* warm-up test: action selection, env.step, append, episode bookkeeping
EnvStep ==
    /\ pc = "loop"
    /\ LoopRuns(frame_idx)
    /\ frame_idx' = frame_idx + 1
    /\ epsilon' = Epsilon(frame_idx')
    /\ \E a \in SelectAction(epsilon', q_params, state), r \in EnvResponses :
         /\ action' = a
         /\ buffer' = DequeAppend(buffer, maxlen,
                         Experience(state, a, r.reward, r.done, r.next_state))
         /\ stepLog' = Append(stepLog, [reward |-> r.reward, done |-> r.done])
         /\ total_rewards' =
                Bookkeeping(total_rewards, total_reward, r.reward, r.done).total_rewards
         /\ total_reward' =
                Bookkeeping(total_rewards, total_reward, r.reward, r.done).total_reward
         /\ \E o \in ResetObs : state' = NextState(r.next_state, r.done, o)
         /\ IF r.done
            THEN /\ solved' = Solved(total_rewards')
                 /\ pc' = AfterEpisode(solved')
            ELSE /\ solved' = solved
                 /\ pc' = "gate"
    /\ UNCHANGED <<maxlen, appended, asked, result>>
    /\ UNCHANGED <<q_params, target_params, upd, saved, q_init, lastSync, nUpdates,
                   load>>
    /\ UNCHANGED <<stackVars, envVars>>

\* the loop test fails: frame_idx has reached total_frames
LoopExit ==
    /\ pc = "loop"
    /\ ~LoopRuns(frame_idx)
    /\ pc' = "save"
    /\ UNCHANGED storeVars
    /\ UNCHANGED <<frame_idx, epsilon, action, state, total_reward, total_rewards,
                   q_params, target_params, upd, saved, q_init, lastSync, nUpdates,
                   solved, stepLog, load>>
    /\ UNCHANGED <<stackVars, envVars>>

\* if len(replay_buffer) < INITIAL_MEMORY: continue
WarmupGate ==
    /\ pc = "gate"
    /\ pc' = IF WarmupPassed(Len(buffer)) THEN BodyOrder("gate") ELSE "loop"
    /\ UNCHANGED storeVars
    /\ UNCHANGED <<frame_idx, epsilon, action, state, total_reward, total_rewards,
                   q_params, target_params, upd, saved, q_init, lastSync, nUpdates,
                   solved, stepLog, load>>
    /\ UNCHANGED <<stackVars, envVars>>

\* if frame_idx % TARGET_UPDATE == 0: target_network.load_state_dict(...)
TargetSync ==
    /\ pc = "sync"
    /\ IF SyncDue(frame_idx)
       THEN /\ target_params' = LoadStateDict(q_params, target_params)
            /\ lastSync' = frame_idx
            /\ load' = [q |-> q_params, updates |-> nUpdates]
       ELSE UNCHANGED <<target_params, lastSync, load>>
    /\ pc' = BodyOrder("sync")
    /\ UNCHANGED storeVars
    /\ UNCHANGED <<frame_idx, epsilon, action, state, total_reward, total_rewards,
                   q_params, upd, saved, q_init, nUpdates, solved, stepLog>>
    /\ UNCHANGED <<stackVars, envVars>>

\* optimizer.zero_grad(); batch = replay_buffer.sample(BATCH_SIZE) ...
\* expected_state_action_values: sample a batch and compute the targets
\* from the target network. An exception of sample ends the cell.
Learn ==
    /\ pc = "learn"
    /\ asked' = BATCH_SIZE
    /\ \E batch \in SampleOutcomes(buffer, BATCH_SIZE) :
         /\ result' = batch
         /\ IF batch.status = "ok"
            THEN /\ upd' = [ran |-> TRUE, q_before |-> q_params,
                            expected |-> ExpectedValues(batch, q_params, target_params)]
                 /\ pc' = BodyOrder("learn")
            ELSE /\ pc' = "crashed"
                 /\ UNCHANGED upd
    /\ UNCHANGED <<buffer, maxlen, appended>>
    /\ UNCHANGED <<frame_idx, epsilon, action, state, total_reward, total_rewards,
                   q_params, target_params, saved, q_init, lastSync, nUpdates,
                   solved, stepLog, load>>
    /\ UNCHANGED <<stackVars, envVars>>

\* loss_t = nn.MSELoss()(...); loss_t.backward(); optimizer.step(): one
\* optimizer step; it can give the optimised parameters any value. The
\* batch and the targets are not read again.
Optimize ==
    /\ pc = "opt"
    /\ \E new \in Params :
         /\ q_params' = OptimizerStep(q_params, target_params, new).q
         /\ target_params' = OptimizerStep(q_params, target_params, new).t
    /\ nUpdates' = nUpdates + 1
    /\ upd' = [upd EXCEPT !.expected = <<>>]
    /\ asked' = -1 /\ result' = NoResult
    /\ pc' = BodyOrder("opt")
    /\ UNCHANGED <<buffer, maxlen, appended>>
    /\ UNCHANGED <<frame_idx, epsilon, action, state, total_reward, total_rewards,
                   saved, q_init, lastSync, solved, stepLog, load>>
    /\ UNCHANGED <<stackVars, envVars>>

\* the end of the loop body: back to the loop test
EndIteration ==
    /\ pc = "end"
    /\ pc' = "loop"
    /\ upd' = NoUpdate
    /\ UNCHANGED storeVars
    /\ UNCHANGED <<frame_idx, epsilon, action, state, total_reward, total_rewards,
                   q_params, target_params, saved, q_init, lastSync, nUpdates,
                   solved, stepLog, load>>
    /\ UNCHANGED <<stackVars, envVars>>

\* torch.save(q_network.state_dict(), ...) after the loop
Save ==
    /\ pc = "save"
    /\ saved' = <<q_params>>
    /\ pc' = "done"
    /\ UNCHANGED storeVars
    /\ UNCHANGED <<frame_idx, epsilon, action, state, total_reward, total_rewards,
                   q_params, target_params, upd, q_init, lastSync, nUpdates,
                   solved, stepLog, load>>
    /\ UNCHANGED <<stackVars, envVars>>

TrainNext ==
    \/ EnvStep \/ LoopExit \/ WarmupGate \/ TargetSync \/ Learn \/ Optimize
    \/ EndIteration \/ Save

SpecTrain == TrainInit /\ [][TrainNext]_vars

(***************************************************************************)
(* BufferWrapper(env, n_steps): the stack of the last n_steps frames       *)
(***************************************************************************)
\* make_env: BufferWrapper(env, 4)
N_STEPS == 4

\* The processed frames the wrapped environment hands to the wrapper, each
\* stood for by one byte value of it; 0 is the all-black frame.
Frames == {0, 7, 255}

\* np.zeros_like(self.observation_space.low): n_steps zero frames
ZeroBuffer == [i \in 1..N_STEPS |-> 0]

\* BufferWrapper.reset: the buffer handed to observation()
\* variant: reset keeps the buffer of the episode before
FreshBufferKeepOld(old) == IF old = <<>> THEN ZeroBuffer ELSE old

\* the code: a new zero buffer replaces the old one
FreshBuffer(old) == ZeroBuffer

\* BufferWrapper.observation
\* variant: the newest slot is overwritten and the older slots never move
ObservationNoShift(buf, frame) ==
    [i \in 1..Len(buf) |-> IF i < Len(buf) THEN buf[i] ELSE frame]

\* the code:
\*   self.buffer[:-1] = self.buffer[1:]; self.buffer[-1] = observation
Observation(buf, frame) ==
    [i \in 1..Len(buf) |-> IF i < Len(buf) THEN buf[i + 1] ELSE frame]

StackInit ==
    /\ buffer = <<>> /\ maxlen = 0 /\ appended = <<>>
    /\ asked = -1 /\ result = NoResult
    /\ TrainIdle
    /\ StackIdle /\ EnvIdle

\* BufferWrapper.reset(): zero-fill, then observation(self.env.reset())
StackReset ==
    /\ Len(calls) < MaxCalls
    /\ \E frame \in Frames :
         /\ stack' = Observation(FreshBuffer(stack), frame)
         /\ calls' = Append(calls, [op |-> "reset", frame |-> frame])
    /\ UNCHANGED <<storeVars, trainVars, envVars>>

\* BufferWrapper.step(action): observation(frame of self.env.step(action)).
\* The buffer exists only once reset has been called.
StackStep ==
    /\ Len(calls) < MaxCalls
    /\ stack # <<>>
    /\ \E frame \in Frames :
         /\ stack' = Observation(stack, frame)
         /\ calls' = Append(calls, [op |-> "step", frame |-> frame])
    /\ UNCHANGED <<storeVars, trainVars, envVars>>

StackNext == StackReset \/ StackStep

SpecStack == StackInit /\ [][StackNext]_vars

(***************************************************************************)
(* make_env: the simulator wrapped by MaxAndSkipEnv, FireResetEnv,         *)
(* ProcessFrame84, ImageToPyTorch, BufferWrapper and ScaledFloatFrame      *)
(***************************************************************************)
\* number of reset / step calls explored in SpecEnv
MaxEnvCalls == 3

\* MaxAndSkipEnv(env, skip=4)
SKIP == 4
\* self._obs_buffer = collections.deque(maxlen=2)
OBS_BUFFER_LEN == 2

\* A raw frame of the simulator: 210 x 160 pixels of three bytes, stood for
\* by one pixel of it.
RawFrame(r, g, b) == [shape |-> <<210, 160, 3>>, rgb |-> <<r, g, b>>]

Court == RawFrame(144, 72, 17)
LeftPaddle == RawFrame(213, 130, 74)
RightPaddle == RawFrame(92, 186, 92)

\* gym's env.step(action): what the simulator can answer, (obs, reward,
\* done). Rewards of both signs occur, and the frames differ in which
\* channel is the brightest.
RawResponses ==
    { [frame |-> LeftPaddle, reward |-> 0, done |-> FALSE],
      [frame |-> RightPaddle, reward |-> 1, done |-> FALSE],
      [frame |-> Court, reward |-> -1, done |-> TRUE] }

\* gym's env.reset(): the first frame of an episode
RawResetFrames == {Court}

\* the actions the caller of the environment passes to step
EnvActions == {1, 3}

\* the entries of rawLog
ResetEntry(f) ==
    [op |-> "reset", action |-> 0, reward |-> 0, done |-> FALSE, frame |-> f]
StepEntry(a, r) ==
    [op |-> "step", action |-> a, reward |-> r.reward, done |-> r.done,
     frame |-> r.frame]

\* MaxAndSkipEnv.step: for _ in range(self._skip): ... if done: break
\* whether the loop takes another raw step after i steps, the last of which
\* returned done
\* variant: the loop has no break
SkipLoopRunsNoBreak(i, done) == i < SKIP

\* the code: up to _skip steps, none after a terminal one
SkipLoopRuns(i, done) == i < SKIP /\ ~done

\* np.max(np.stack(self._obs_buffer), axis=0)
\* variant: the newest frame is returned without pooling
MaxFrameNewest(frames) == frames[Len(frames)]

\* the code: the element-wise maximum of the frames in the buffer
RECURSIVE MaxFrame(_)
MaxFrame(frames) ==
    IF Len(frames) = 1 THEN frames[1]
    ELSE LET rest == MaxFrame(Tail(frames)) IN
         [shape |-> frames[1].shape,
          rgb |-> [c \in 1..3 |-> Max(frames[1].rgb[c], rest.rgb[c])]]

\* FireResetEnv.reset: if done: self.env.reset()
\* variant: a terminated episode is left as it is
ResetAgainNever(done) == FALSE

\* the code: the simulator is reset again when the scripted step ended the
\* episode
ResetAgain(done) == done

\* ProcessFrame84.process: the frame must have a known resolution; the
\* channels are weighted 0.299, 0.587 and 0.114, the image is resized to
\* 84 x 110 with INTER_AREA (an average over neighbouring pixels, which
\* leaves the pixel standing for the frame as it is), the rows 18..101 are
\* kept, and astype(np.uint8) drops the fraction. A frame of unknown
\* resolution fails the assertion (shape <<>>).
Process(frame) ==
    LET size == frame.shape[1] * frame.shape[2] * frame.shape[3] IN
    IF size = 210 * 160 * 3 \/ size = 250 * 160 * 3
    THEN [shape |-> <<102 - 18, 84, 1>>,
          v |-> ((299 * frame.rgb[1] + 587 * frame.rgb[2] + 114 * frame.rgb[3])
                    \div 1000) % 256]
    ELSE [shape |-> <<>>, v |-> 0]

\* ImageToPyTorch.observation: np.moveaxis(observation, 2, 0)
MoveAxis(o) == [o EXCEPT !.shape = <<o.shape[3], o.shape[1], o.shape[2]>>]

\* BufferWrapper.__init__: the shape of old_space.low.repeat(n_steps, axis=0),
\* old_space being ImageToPyTorch's (old_shape[-1], old_shape[0], old_shape[1])
\* of ProcessFrame84's (84, 84, 1)
BufferShape == <<1 * N_STEPS, 84, 84>>

\* np.zeros_like(self.observation_space.low, dtype=self.dtype): an array of
\* one value per frame of the stack; den is the divisor its values carry
\* (an element is data[i] / den)
ZeroArray == [shape |-> BufferShape, data |-> [i \in 1..BufferShape[1] |-> 0], den |-> 1]

\* ScaledFloatFrame.observation(obs), obs being the array at ref: the heap
\* and the reference of the returned array
\* variant: the stack itself is returned
ScaledFloatFrameAlias(h, ref) == [heap |-> h, ref |-> ref]

\* variant: a copy is returned that is not divided
ScaledFloatFrameNoDivide(h, ref) == [heap |-> Append(h, h[ref]), ref |-> Len(h) + 1]

\* the code: np.array(obs).astype(np.float32) / 255.0 is a new array
ScaledFloatFrame(h, ref) ==
    [heap |-> Append(h, [h[ref] EXCEPT !.den = @ * 255]), ref |-> Len(h) + 1]

\* The observation wrappers applied to the frame the inner environment
\* returned: ProcessFrame84, ImageToPyTorch, BufferWrapper.observation on
\* the array at bref (in place), ScaledFloatFrame.
Deliver(h, bref, frame) ==
    LET o == MoveAxis(Process(frame)) IN
    ScaledFloatFrame([h EXCEPT ![bref].data = Observation(@, o.v)], bref)

\* env = make_env(...): nothing has been reset or stepped yet
EnvInit ==
    /\ buffer = <<>> /\ maxlen = 0 /\ appended = <<>>
    /\ asked = -1 /\ result = NoResult
    /\ TrainIdle /\ StackIdle
    /\ epc = "idle" /\ sim_done = FALSE /\ obs_buffer = <<>> /\ skip = NoSkip
    /\ heap = <<>> /\ buffer_ref = 0 /\ ret = NoRet
    /\ rawLog = <<>> /\ held = <<>> /\ ncalls = 0
    /\ sim_frame = NoFrame /\ frame_before = NoFrame

\* env.reset() up to the first scripted step: BufferWrapper.reset allocates
\* the zero buffer, FireResetEnv.reset calls MaxAndSkipEnv.reset (clear the
\* frame buffer, reset the simulator, keep its frame) and begins step(1)
EnvReset ==
    /\ epc = "idle"
    /\ ncalls < MaxEnvCalls
    /\ ncalls' = ncalls + 1
    /\ heap' = Append(heap, ZeroArray)
    /\ buffer_ref' = Len(heap) + 1
    /\ \E f \in RawResetFrames :
         /\ obs_buffer' = <<f>>
         /\ sim_frame' = f
         /\ rawLog' = <<ResetEntry(f)>>
    /\ sim_done' = FALSE
    /\ frame_before' = sim_frame
    /\ skip' = [action |-> 1, i |-> 0, total_reward |-> 0, done |-> FALSE]
    /\ ret' = NoRet
    /\ epc' = "fire1"
    /\ UNCHANGED held
    /\ UNCHANGED <<storeVars, trainVars, stackVars>>

\* env.step(action) up to the loop of MaxAndSkipEnv.step. The caller steps
\* an environment that has been reset and whose episode has not ended.
EnvStepCall ==
    /\ epc = "idle"
    /\ ncalls < MaxEnvCalls
    /\ buffer_ref # 0
    /\ ~sim_done
    /\ ncalls' = ncalls + 1
    /\ \E a \in EnvActions :
         skip' = [action |-> a, i |-> 0, total_reward |-> 0, done |-> FALSE]
    /\ rawLog' = <<>>
    /\ ret' = NoRet
    /\ epc' = "step"
    /\ frame_before' = sim_frame
    /\ UNCHANGED <<sim_done, sim_frame, obs_buffer, heap, buffer_ref, held>>
    /\ UNCHANGED <<storeVars, trainVars, stackVars>>

\* one pass of the loop of MaxAndSkipEnv.step:
\*   obs, reward, done, info = self.env.step(action)
\*   self._obs_buffer.append(obs); total_reward += reward
RawStep ==
    /\ epc \in {"fire1", "fire2", "step"}
    /\ SkipLoopRuns(skip.i, skip.done)
    /\ \E r \in RawResponses :
         /\ obs_buffer' = DequeAppend(obs_buffer, OBS_BUFFER_LEN, r.frame)
         /\ skip' = [action |-> skip.action, i |-> skip.i + 1,
                     total_reward |-> skip.total_reward + r.reward, done |-> r.done]
         /\ sim_done' = r.done
         /\ sim_frame' = r.frame
         /\ rawLog' = Append(rawLog, StepEntry(skip.action, r))
    /\ UNCHANGED <<epc, heap, buffer_ref, ret, held, ncalls, frame_before>>
    /\ UNCHANGED <<storeVars, trainVars, stackVars>>

\* FireResetEnv.reset after self.env.step(1) has returned:
\*   if done: self.env.reset()
\* and the start of self.env.step(2)
FireSecond ==
    /\ epc = "fire1"
    /\ ~SkipLoopRuns(skip.i, skip.done)
    /\ IF ResetAgain(skip.done)
       THEN /\ \E f \in RawResetFrames :
                 /\ obs_buffer' = <<f>>
                 /\ sim_frame' = f
                 /\ rawLog' = Append(rawLog, ResetEntry(f))
            /\ sim_done' = FALSE
       ELSE UNCHANGED <<obs_buffer, sim_done, sim_frame, rawLog>>
    /\ skip' = [action |-> 2, i |-> 0, total_reward |-> 0, done |-> FALSE]
    /\ epc' = "fire2"
    /\ UNCHANGED <<heap, buffer_ref, ret, held, ncalls, frame_before>>
    /\ UNCHANGED <<storeVars, trainVars, stackVars>>

\* FireResetEnv.reset after self.env.step(2) has returned its max_frame:
\*   if done: self.env.reset()
\*   return obs
\* and the observation wrappers on the way out of env.reset()
ResetReturn ==
    /\ epc = "fire2"
    /\ ~SkipLoopRuns(skip.i, skip.done)
    /\ IF ResetAgain(skip.done)
       THEN /\ \E f \in RawResetFrames :
                 /\ obs_buffer' = <<f>>
                 /\ sim_frame' = f
                 /\ rawLog' = Append(rawLog, ResetEntry(f))
            /\ sim_done' = FALSE
       ELSE UNCHANGED <<obs_buffer, sim_done, sim_frame, rawLog>>
    /\ LET out == Deliver(heap, buffer_ref, MaxFrame(obs_buffer)) IN
         /\ heap' = out.heap
         /\ ret' = [op |-> "reset", action |-> 0, obs |-> out.ref,
                    reward |-> 0, done |-> FALSE]
         /\ held' = Append(held, [ref |-> out.ref, value |-> out.heap[out.ref]])
    /\ skip' = NoSkip
    /\ epc' = "idle"
    /\ UNCHANGED <<buffer_ref, ncalls, frame_before>>
    /\ UNCHANGED <<storeVars, trainVars, stackVars>>

\* MaxAndSkipEnv.step after its loop:
\*   return max_frame, total_reward, done, info
\* and the observation wrappers on the way out of env.step(action)
StepReturn ==
    /\ epc = "step"
    /\ ~SkipLoopRuns(skip.i, skip.done)
    /\ LET out == Deliver(heap, buffer_ref, MaxFrame(obs_buffer)) IN
         /\ heap' = out.heap
         /\ ret' = [op |-> "step", action |-> skip.action, obs |-> out.ref,
                    reward |-> skip.total_reward, done |-> skip.done]
         /\ held' = Append(held, [ref |-> out.ref, value |-> out.heap[out.ref]])
    /\ skip' = NoSkip
    /\ epc' = "idle"
    /\ UNCHANGED <<sim_done, sim_frame, obs_buffer, buffer_ref, rawLog, ncalls,
                   frame_before>>
    /\ UNCHANGED <<storeVars, trainVars, stackVars>>

EnvNext ==
    \/ EnvReset \/ EnvStepCall \/ RawStep \/ FireSecond \/ ResetReturn
    \/ StepReturn

SpecEnv == EnvInit /\ [][EnvNext]_vars

(***************************************************************************)
(* Claims about the ReplayBuffer, under SpecStore                          *)
(***************************************************************************)

\* C1: the number of stored transitions never exceeds the capacity, and
\* after n appends (with any samples in between) it is exactly min(n, C).
C1_CapacityInvariant ==
    /\ Len(buffer) <= maxlen
    /\ Len(buffer) = Min(Len(appended), maxlen)

\* C1 witness: C+1 transitions were appended to a store of capacity C >= 1,
\* a sample has been drawn, and exactly C transitions are stored.
C1_Witness ==
    /\ maxlen >= 1
    /\ Len(appended) = maxlen + 1
    /\ Len(buffer) = maxlen
    /\ result.status = "ok"

\* the last k items of sequence s
LastK(s, k) == SubSeq(s, Len(s) - k + 1, Len(s))

\* C2: the store holds exactly the most recent min(n, C) appended
\* transitions, in insertion order, whatever samples were drawn in between.
C2_OldestFirstEviction ==
    buffer = LastK(appended, Min(Len(appended), maxlen))

\* C2 witness: a store of capacity >= 2 that has evicted at least two
\* entries, the first appended one among them, after a successful sample.
C2_Witness ==
    /\ maxlen >= 2
    /\ Len(appended) >= maxlen + 2
    /\ buffer[1] # appended[1]
    /\ result.status = "ok"
    /\ asked = maxlen

\* res is a batch of k transitions of buf: five sequences of length k whose
\* position i all come from one stored transition, the k positions pairwise
\* distinct.
IsBatchOf(res, buf, k) ==
    /\ res.status = "ok"
    /\ Len(res.states) = k /\ Len(res.actions) = k /\ Len(res.rewards) = k
    /\ Len(res.dones) = k /\ Len(res.next_states) = k
    /\ \E pos \in [1..k -> 1..Len(buf)] :
         /\ \A i, j \in 1..k : i # j => pos[i] # pos[j]
         /\ \A i \in 1..k :
              /\ res.states[i] = buf[pos[i]].state
              /\ res.actions[i] = buf[pos[i]].action
              /\ res.rewards[i] = buf[pos[i]].reward
              /\ res.dones[i] = (IF buf[pos[i]].done THEN 1 ELSE 0)
              /\ res.next_states[i] = buf[pos[i]].new_state

\* a step of SpecStore that is a sample call (append extends the history)
IsSampleStep == appended' = appended

\* C3: for every k <= current size, sample(k) returns a batch of k
\* transitions from k pairwise distinct positions of the store, as five
\* parallel sequences.
C3_SampleReturnsBatch ==
    [][ (IsSampleStep /\ asked' <= Len(buffer))
          => IsBatchOf(result', buffer, asked') ]_vars

\* C3, for batch sizes of at least one: the statement of C3 restricted to
\* 1 <= k <= current size.
C3_SampleReturnsBatchPositive ==
    [][ (IsSampleStep /\ 1 <= asked' /\ asked' <= Len(buffer))
          => IsBatchOf(result', buffer, asked') ]_vars

\* C4: sample(batch_size) with batch_size greater than the number of stored
\* transitions raises: it returns no batch (neither a shorter one nor one
\* with repeats) and leaves the store as it was.
C4_OversizedSampleRaises ==
    [][ (IsSampleStep /\ asked' > Len(buffer))
          => /\ result'.status = "error"
             /\ result'.states = <<>> /\ result'.next_states = <<>>
             /\ buffer' = buffer /\ maxlen' = maxlen ]_vars

\* C4 witness: a non-empty store was asked for more than it holds and the
\* call raised.
C4_Witness ==
    /\ Len(buffer) >= 1
    /\ Len(appended) = Len(buffer)
    /\ asked > Len(buffer)
    /\ result.status = "error"

(***************************************************************************)
(* Claims about the training loop, under SpecTrain                         *)
(***************************************************************************)

\* C5: while the store holds fewer transitions than the warm-up threshold
\* the loop neither samples nor updates: no sample call ever asks for more
\* than the store holds (none raises), no optimizer step has been taken,
\* the online parameters are the initial ones and the target parameters
\* equal them.
C5_WarmupNeverLearns ==
    /\ pc # "crashed"
    /\ (pc = "learn" => BATCH_SIZE <= Len(buffer))
    /\ (Len(buffer) < INITIAL_MEMORY =>
          /\ pc \notin {"sync", "learn", "opt", "end"}
          /\ result = NoResult /\ ~upd.ran /\ nUpdates = 0
          /\ q_params = q_init
          /\ target_params = q_params)

\* C5 witness: the last warm-up iteration has just ended with `continue`,
\* on a step whose counter is a multiple of the sync period.
C5_Witness ==
    /\ pc = "loop"
    /\ frame_idx = INITIAL_MEMORY - 1
    /\ Len(buffer) = INITIAL_MEMORY - 1
    /\ frame_idx % TARGET_UPDATE = 0

\* C6 as stated: at the end of every iteration in which the store holds at
\* least the warm-up threshold and the step counter is a multiple of the
\* sync period, the target parameters equal the online parameters.
C6_TargetEqualsOnlineAtSyncStep ==
    (pc = "end" /\ Len(buffer) >= INITIAL_MEMORY /\ frame_idx % TARGET_UPDATE = 0)
        => target_params = q_params

\* C6 amended: at the end of every such iteration that runs to the end of
\* the loop body, the target parameters equal the online parameters as they
\* were just before that iteration's optimizer step (the sync of the
\* iteration comes before its update).
C6_TargetEqualsPreUpdateOnline ==
    (pc = "end" /\ Len(buffer) >= INITIAL_MEMORY /\ frame_idx % TARGET_UPDATE = 0)
        => /\ upd.ran
           /\ target_params = upd.q_before

\* C6 witness: the end of a sync iteration whose sync changed the target
\* parameters and whose update then changed the online ones.
C6_Witness ==
    /\ pc = "end" /\ Len(buffer) >= INITIAL_MEMORY
    /\ frame_idx % TARGET_UPDATE = 0
    /\ target_params # q_init
    /\ q_params # target_params

\* C7 as stated: the target sync executes on every step whose counter is a
\* multiple of the sync period, in warm-up as well: when such an iteration
\* is over and the loop is back at its test, the sync has run on that step.
C7_SyncOnEveryKthStep ==
    (pc = "loop" /\ frame_idx > 0 /\ frame_idx % TARGET_UPDATE = 0)
        => lastSync = frame_idx

\* C7 amended: the target sync executes on exactly those steps whose
\* counter is a multiple of the sync period and on which the store holds at
\* least the warm-up threshold (and which do not end training); no sync
\* executes while the store is below the threshold.
C7_SyncOnlyWhenActive ==
    /\ (Len(buffer) < INITIAL_MEMORY => lastSync = 0)
    /\ (pc \in {"learn", "opt", "end"} \/ (pc = "loop" /\ Len(buffer) >= INITIAL_MEMORY))
          => (lastSync = frame_idx <=> frame_idx % TARGET_UPDATE = 0)

\* C7 witness: a sync has run on a step past the warm-up, after a multiple
\* of the sync period went by during warm-up.
C7_Witness ==
    /\ pc = "learn"
    /\ lastSync = frame_idx
    /\ frame_idx - TARGET_UPDATE > 0
    /\ frame_idx - TARGET_UPDATE < INITIAL_MEMORY

\* v is the largest value the network with parameters p gives at s
IsBestValue(v, p, s) ==
    /\ \E a \in Actions : Forward(p, s)[a] = v
    /\ \A a \in Actions : Forward(p, s)[a] <= v

\* C8: the TD target of a sampled terminal transition is its reward
\* exactly; that of a non-terminal one is reward + gamma * the largest
\* value the target network gives at next_state (targets in hundredths).
C8_TDTarget ==
    pc = "opt" =>
        /\ Len(upd.expected) = BATCH_SIZE
        /\ \A i \in 1..BATCH_SIZE :
             /\ result.dones[i] = 1 => upd.expected[i] = 100 * result.rewards[i]
             /\ result.dones[i] = 0 =>
                  \E v \in -1..1 :
                     /\ IsBestValue(v, target_params, result.next_states[i])
                     /\ upd.expected[i] = 100 * result.rewards[i] + GAMMA_PCT * v

\* C8 witness: a batch with a terminal transition at whose next_state the
\* target network's best value is not zero, and a non-terminal one at whose
\* next_state the online and the target network differ.
C8_Witness ==
    /\ pc = "opt"
    /\ \E i, j \in 1..BATCH_SIZE :
         /\ result.dones[i] = 1
         /\ ~IsBestValue(0, target_params, result.next_states[i])
         /\ result.rewards[i] # 0
         /\ result.dones[j] = 0
         /\ \A v \in -1..1 :
              ~(IsBestValue(v, target_params, result.next_states[j])
                  /\ IsBestValue(v, q_params, result.next_states[j]))

\* C9: the target parameters change only in the sync, which makes them a
\* copy of the online parameters and leaves the online ones alone; the
\* optimizer step leaves the target parameters alone, so after a sync
\* followed by the update they equal the online parameters from before it.
C9_TargetChangedOnlyBySync ==
    [][ /\ (target_params' # target_params =>
               pc = "sync" /\ target_params' = q_params)
        /\ (pc = "sync" => q_params' = q_params)
        /\ (pc = "opt" => target_params' = target_params)
        /\ ((pc = "opt" /\ lastSync = frame_idx) => target_params' = q_params)
      ]_vars

\* C9 witness: a sync that changed the target parameters was followed by an
\* update that changed the online parameters.
C9_Witness ==
    /\ pc = "end"
    /\ lastSync = frame_idx
    /\ upd.q_before # q_init
    /\ q_params # upd.q_before
    /\ target_params = upd.q_before

(***************************************************************************)
(* Claims about the frame stack, under SpecStack                           *)
(***************************************************************************)

\* C10: after every reset the newest slot of the stack holds the first
\* frame of the new episode and the other N-1 slots are zero, whatever was
\* pushed before.
C10_ResetZeroFills ==
    (calls # <<>> /\ calls[Len(calls)].op = "reset") =>
        /\ Len(stack) = N_STEPS
        /\ stack[N_STEPS] = calls[Len(calls)].frame
        /\ \A i \in 1..(N_STEPS - 1) : stack[i] = 0

\* C10 witness: a reset with a non-black frame right after a stack full of
\* non-black frames of the episode before.
C10_Witness ==
    /\ Len(calls) > N_STEPS
    /\ calls[Len(calls)].op = "reset"
    /\ \A k \in 1..Len(calls) : calls[k].frame # 0
    /\ \A k \in 2..(Len(calls) - 1) : calls[k].op = "step"

\* The position in calls of the most recent reset.
LastResetAt ==
    CHOOSE k \in 1..Len(calls) :
        /\ calls[k].op = "reset"
        /\ \A j \in (k + 1)..Len(calls) : calls[j].op = "step"

\* N zero frames followed by f0 (the frame of the most recent reset) and
\* the frames f1..fm pushed since, oldest first.
PaddedEpisodeFrames ==
    [i \in 1..N_STEPS |-> 0] \o
    [i \in 1..(Len(calls) - LastResetAt + 1) |-> calls[LastResetAt + i - 1].frame]

\* C11: after a reset that produced f0 and m pushes f1..fm the stack is the
\* last N elements of (0,...,0,f0,f1,...,fm), oldest first; so after N
\* pushes it is [f1..fN] and after N+1 pushes f1 is gone.
C11_SlidingWindow ==
    calls # <<>> =>
        /\ Len(stack) = N_STEPS
        /\ \A i \in 1..N_STEPS :
             stack[i] = PaddedEpisodeFrames[Len(PaddedEpisodeFrames) - N_STEPS + i]

\* C11 witness: a reset and N+1 pushes, the first push the only frame of
\* value 7; the stack holds the pushes 2..N+1 and no 7 any more.
C11_Witness ==
    /\ Len(calls) = N_STEPS + 2
    /\ calls[1].op = "reset"
    /\ \A k \in 2..Len(calls) : calls[k].op = "step"
    /\ calls[2].frame = 7
    /\ \A k \in 3..Len(calls) : calls[k].frame = 255
    /\ stack = [i \in 1..N_STEPS |-> 255]

(***************************************************************************)
(* Claims about the episodes and the modes of the training loop, under     *)
(* SpecTrain                                                               *)
(***************************************************************************)

\* the number of finished episodes the average is taken over
WindowLen == IF Len(total_rewards) < AVG_WINDOW THEN Len(total_rewards) ELSE AVG_WINDOW

\* the sum of the returns of the last WindowLen finished episodes
WindowSum ==
    SumSeq(SubSeq(total_rewards, Len(total_rewards) - WindowLen + 1, Len(total_rewards)))

\* the last environment step ended an episode
AtEpisodeBoundary == stepLog # <<>> /\ stepLog[Len(stepLog)].done

\* C13: the loop is left as solved exactly when the last step ended an
\* episode and the average return of the last AVG_WINDOW finished episodes
\* is strictly above the threshold; never after a non-terminal step and
\* never with an average at or below the threshold.
C13_SolvedExactlyAboveThreshold ==
    /\ solved <=> (AtEpisodeBoundary /\ 2 * WindowSum > SOLVED_X2 * WindowLen)
    /\ solved => pc \in {"save", "done"}
    /\ (pc \in {"save", "done"} /\ ~solved) => frame_idx = total_frames

\* C13 witness: solved at the third episode boundary, after a boundary at
\* which the average was exactly the threshold and the loop went on.
C13_Witness ==
    /\ solved
    /\ Len(total_rewards) = 3
    /\ 2 * (total_rewards[1] + total_rewards[2]) = SOLVED_X2 * 2
    /\ 2 * total_rewards[1] <= SOLVED_X2

\* EPS_START and EPS_END in the unit of epsilon, 1 / (100 * EPS_DECAY)
EpsStartUnits == EPS_START_PCT * EPS_DECAY
EpsFloorUnits == EPS_END_PCT * EPS_DECAY

\* C14 as stated: the exploration rate is the start value on the first
\* step, the floor once EPS_DECAY steps have been taken, and between the
\* two at every step.
C14_StartsAtStartValue ==
    frame_idx >= 1 =>
        /\ frame_idx = 1 => epsilon = EpsStartUnits
        /\ frame_idx >= EPS_DECAY => epsilon = EpsFloorUnits
        /\ EpsFloorUnits <= epsilon /\ epsilon <= EpsStartUnits

\* C14 amended: at step f = 1, 2, ... the exploration rate is one decrement
\* 1 / EPS_DECAY below the start value on the first step, f decrements
\* below it while that is above the floor, and the floor from the step on
\* at which start - f / EPS_DECAY is at or below the floor, in particular
\* from step EPS_DECAY on; it never increases and lies in [floor, start).
C14_LinearDecayFromFirstDecrement ==
    /\ [](frame_idx >= 1 =>
            /\ frame_idx = 1 => epsilon = EpsStartUnits - 100
            /\ epsilon > EpsFloorUnits => epsilon = EpsStartUnits - 100 * frame_idx
            /\ epsilon = EpsFloorUnits <=>
                   100 * frame_idx >= (EPS_START_PCT - EPS_END_PCT) * EPS_DECAY
            /\ frame_idx >= EPS_DECAY => epsilon = EpsFloorUnits
            /\ EpsFloorUnits <= epsilon /\ epsilon < EpsStartUnits)
    /\ [][frame_idx >= 1 => epsilon' <= epsilon]_vars

\* C14 witness: a step after the floor was reached, taken at the floor.
C14_Witness ==
    /\ frame_idx > EPS_DECAY
    /\ epsilon = EpsFloorUnits
    /\ Len(stepLog) = frame_idx

\* The iterations among the first f whose append left the store at or above
\* the warm-up threshold: the store holds min(i, REPLAY_MEMORY) transitions
\* after the i-th append.
ActiveIterations(f) ==
    Cardinality({ i \in 1..f :
        (IF i < REPLAY_MEMORY THEN i ELSE REPLAY_MEMORY) >= INITIAL_MEMORY })

\* the running iteration has taken its environment step and not yet
\* finished its update
MidIteration == pc \in {"gate", "sync", "learn", "opt"}

\* C18: every iteration takes one environment step and appends its
\* transition; every iteration with the store at or above the threshold
\* that does not end the loop as solved samples once and updates once
\* before the next iteration starts, and no other update takes place.
C18_OneUpdatePerActiveStep ==
    /\ pc # "crashed"
    /\ Len(stepLog) = frame_idx
    /\ Len(buffer) = (IF frame_idx < REPLAY_MEMORY THEN frame_idx ELSE REPLAY_MEMORY)
    /\ frame_idx >= 1 =>
          /\ buffer[Len(buffer)].reward = stepLog[frame_idx].reward
          /\ buffer[Len(buffer)].done = stepLog[frame_idx].done
          /\ buffer[Len(buffer)].action = action
    /\ nUpdates =
          IF MidIteration \/ solved
          THEN ActiveIterations(frame_idx - 1)
          ELSE ActiveIterations(frame_idx)
    /\ pc \in {"sync", "learn", "opt", "end"} => Len(buffer) >= INITIAL_MEMORY
    /\ (pc = "opt") <=> (result.status = "ok")
    /\ result.status = "ok" => Len(result.states) = BATCH_SIZE
    /\ upd.ran <=> pc \in {"opt", "end"}

\* C18 witness: the loop test after three iterations in a row that each
\* stepped, appended, sampled and updated, following the warm-up.
C18_Witness ==
    /\ pc = "loop"
    /\ ~solved
    /\ frame_idx = INITIAL_MEMORY + 2
    /\ nUpdates = 3
    /\ Len(total_rewards) >= 1

\* the store is at or above the warm-up threshold
StoreWarm == Len(buffer) >= INITIAL_MEMORY

\* C19: once the store has reached the warm-up threshold it never falls
\* below it again, and once the loop has been left as solved it stays so
\* and takes no further environment step, append, sample, update or sync.
C19_ModesMonotoneSolvedTerminal ==
    [][ /\ StoreWarm => StoreWarm'
        /\ solved =>
              /\ solved'
              /\ frame_idx' = frame_idx /\ stepLog' = stepLog
              /\ buffer' = buffer
              /\ asked' = asked /\ result' = result
              /\ nUpdates' = nUpdates /\ q_params' = q_params
              /\ lastSync' = lastSync /\ target_params' = target_params
              /\ pc' = "done" ]_vars

\* C19 witness: the loop was left as solved after at least one update, with
\* frames to spare, and the parameters have been saved since.
C19_Witness ==
    /\ solved
    /\ pc = "done"
    /\ nUpdates >= 1
    /\ frame_idx < total_frames
    /\ StoreWarm

\* the steps that ended an episode, by their number
Boundaries == { i \in 1..Len(stepLog) : stepLog[i].done }

\* the step that ended the k-th episode (0 for k = 0)
EpisodeEnd(k) ==
    IF k = 0 THEN 0
    ELSE CHOOSE b \in Boundaries : Cardinality({ j \in Boundaries : j <= b }) = k

\* the sum of the rewards of the steps a+1 .. b
RewardsAfterUpTo(a, b) == SumSeq([i \in 1..(b - a) |-> stepLog[a + i].reward])

\* C20: the list of returns has one entry per terminal step and none for
\* any other step; the k-th entry is the sum of the rewards of the steps
\* after the (k-1)-th boundary up to and including the k-th; the running
\* return is the sum of the rewards since the last boundary (zero at a
\* boundary), and at a boundary the next action is chosen from a reset
\* observation.
C20_EpisodeBookkeeping ==
    /\ Len(total_rewards) = Cardinality(Boundaries)
    /\ \A k \in 1..Len(total_rewards) :
          total_rewards[k] = RewardsAfterUpTo(EpisodeEnd(k - 1), EpisodeEnd(k))
    /\ total_reward = RewardsAfterUpTo(EpisodeEnd(Len(total_rewards)), Len(stepLog))
    /\ AtEpisodeBoundary => total_reward = 0 /\ state \in ResetObs
    /\ (stepLog # <<>> /\ ~AtEpisodeBoundary) => state = buffer[Len(buffer)].new_state

\* C20 witness: two finished episodes of different returns and a third one
\* running with a reward already collected.
C20_Witness ==
    /\ Len(total_rewards) = 2
    /\ total_rewards[1] = 1
    /\ total_rewards[2] = 2
    /\ total_reward = 1
    /\ ~AtEpisodeBoundary

(***************************************************************************)
(* Claims about the environment pipeline, under SpecEnv                    *)
(***************************************************************************)

\* a call has returned
Returned == epc = "idle" /\ ret.op # "none"

\* the sum of the rewards of the entries of a log
LogReward(log) == SumSeq([i \in 1..Len(log) |-> log[i].reward])

\* C15: a returned step has made only raw steps, all with the action of the
\* call: exactly SKIP of them when none terminated, otherwise up to and
\* including the first terminal one and none after it; the returned reward
\* is the sum of their rewards and the returned flag is that of the last.
C15_SkipStepsRewardAndFlag ==
    (Returned /\ ret.op = "step") =>
        /\ Len(rawLog) >= 1 /\ Len(rawLog) <= SKIP
        /\ \A i \in 1..Len(rawLog) :
              /\ rawLog[i].op = "step"
              /\ rawLog[i].action = ret.action
              /\ rawLog[i].done => i = Len(rawLog)
        /\ (\A i \in 1..Len(rawLog) : ~rawLog[i].done) => Len(rawLog) = SKIP
        /\ ret.reward = LogReward(rawLog)
        /\ ret.done = rawLog[Len(rawLog)].done

\* C15 witness: a step that stopped at its third raw step, the terminal
\* one, with rewards 1, 1 and -1.
C15_Witness ==
    /\ Returned /\ ret.op = "step"
    /\ Len(rawLog) = 3
    /\ rawLog[1].reward = 1 /\ rawLog[2].reward = 1 /\ rawLog[3].reward = -1
    /\ ret.done
    /\ ret.reward = 1

\* the positions of rawLog at which the simulator was stepped with action a
StepsWith(a) == { i \in 1..Len(rawLog) : rawLog[i].op = "step" /\ rawLog[i].action = a }

\* C16: a returned reset has first reset the simulator, then stepped it
\* with action 1, then with action 2, and with no other action; every
\* raw step that reported termination is directly followed by another
\* simulator reset, so the simulator is not left in a terminated episode.
C16_FireResetScript ==
    (Returned /\ ret.op = "reset") =>
        /\ rawLog[1].op = "reset"
        /\ rawLog[2].op = "step"
        /\ \A i \in 1..Len(rawLog) : rawLog[i].op = "step" => rawLog[i].action \in {1, 2}
        /\ StepsWith(1) # {} /\ StepsWith(2) # {}
        /\ \A i \in StepsWith(1), j \in StepsWith(2) : i < j
        /\ \A i \in 1..Len(rawLog) :
              (rawLog[i].op = "step" /\ rawLog[i].done) =>
                  (i < Len(rawLog) /\ rawLog[i + 1].op = "reset")
        /\ ~sim_done

\* C16 witness: a reset during which both scripted actions ended the
\* episode at once, so that the simulator was reset three times.
C16_Witness ==
    /\ Returned /\ ret.op = "reset"
    /\ Len(rawLog) = 5
    /\ rawLog[2].done /\ rawLog[2].action = 1
    /\ rawLog[4].done /\ rawLog[4].action = 2
    /\ rawLog[5].op = "reset"

\* C17: the observation a reset or step returns has N_STEPS frames of
\* 84 x 84, channel first, one value per frame in the model, and every
\* value data[i] / den lies in [0, 1].
C17_ShapeAndRange ==
    Returned =>
        /\ heap[ret.obs].shape = <<N_STEPS, 84, 84>>
        /\ Len(heap[ret.obs].data) = N_STEPS
        /\ heap[ret.obs].den > 0
        /\ \A i \in 1..N_STEPS :
              /\ 0 <= heap[ret.obs].data[i]
              /\ heap[ret.obs].data[i] <= heap[ret.obs].den

\* C17 witness: a returned stack of a zero frame and three frames of
\* different brightness, the newest the maximum of two raw frames.
C17_Witness ==
    /\ Returned
    /\ heap[ret.obs].den = 255
    /\ heap[ret.obs].data[1] = 0
    /\ heap[ret.obs].data[2] > 0
    /\ heap[ret.obs].data[3] > heap[ret.obs].data[2]
    /\ heap[ret.obs].data[4] = 183

\* C12: every observation a reset or step has returned still has the value
\* it had when it was returned, whatever resets and steps came after.
C12_ReturnedObservationsKeepValue ==
    \A k \in 1..Len(held) : heap[held[k].ref] = held[k].value

\* C12 witness: three observations returned, a step, a step and a reset in
\* any order, the first two of different values, and the stack changed
\* since each of them.
C12_Witness ==
    /\ Returned
    /\ Len(held) = 3
    /\ held[1].value # held[2].value
    /\ held[2].value # held[3].value
    /\ held[2].ref # held[3].ref
    /\ heap[buffer_ref].data # held[2].value.data

\* the value the observation wrappers give the newest slot of the stack
\* when handed the element-wise maximum of the raw frames f and g
PooledValue(f, g) ==
    Process([shape |-> g.shape,
             rgb |-> [c \in 1..3 |-> IF f.rgb[c] >= g.rgb[c] THEN f.rgb[c]
                                     ELSE g.rgb[c]]]).v

\* the position in rawLog of the last raw step
LastRawStep ==
    CHOOSE k \in 1..Len(rawLog) :
        /\ rawLog[k].op = "step"
        /\ \A j \in (k + 1)..Len(rawLog) : rawLog[j].op # "step"

\* C21: the newest frame of a returned step is made from the element-wise
\* maximum of the last two raw frames the simulator produced: the last two
\* of the call or, after a single raw step, that frame and the frame the
\* simulator showed when the call began. Inside a reset the frame handed
\* on is the maximum of the last raw step and the raw frame before it, be
\* that a step or the reset that cleared the buffer.
C21_MaxOfLastTwoRawFrames ==
    /\ (Returned /\ ret.op = "step") =>
          heap[ret.obs].data[N_STEPS] =
              PooledValue(IF Len(rawLog) >= 2 THEN rawLog[Len(rawLog) - 1].frame
                          ELSE frame_before,
                          rawLog[Len(rawLog)].frame)
    /\ (Returned /\ ret.op = "reset") =>
          heap[ret.obs].data[N_STEPS] =
              PooledValue(rawLog[LastRawStep - 1].frame, rawLog[LastRawStep].frame)
    /\ (Returned /\ ret.op = "step") => frame_before \in {Court, LeftPaddle, RightPaddle}

\* C21 witness: a full window whose first two raw frames differ from its
\* last two; the returned frame is the last two's maximum and is darker
\* than the maximum over the whole window would be.
C21_Witness ==
    /\ Returned /\ ret.op = "step"
    /\ Len(rawLog) = SKIP
    /\ rawLog[1].frame = LeftPaddle /\ rawLog[2].frame = LeftPaddle
    /\ rawLog[3].frame = RightPaddle /\ rawLog[4].frame = RightPaddle
    /\ heap[ret.obs].data[N_STEPS] = 147
    /\ PooledValue(LeftPaddle, RightPaddle) = 183

\* the position in rawLog of the last simulator reset
LastRawReset ==
    CHOOSE k \in 1..Len(rawLog) :
        /\ rawLog[k].op = "reset"
        /\ \A j \in (k + 1)..Len(rawLog) : rawLog[j].op # "reset"

\* the raw frames of the episode that is live at the end of rawLog: the
\* frame of the last simulator reset and the frames of the steps after it
LiveFrames ==
    [i \in 1..(Len(rawLog) - LastRawReset + 1) |-> rawLog[LastRawReset + i - 1].frame]

\* C26 as stated: the newest frame of the observation a reset returns is
\* made from the raw frame the simulator produced last, pooled with the
\* frame before it when the live episode has one, and from no frame of an
\* episode that ended during the reset.
C26_ResetObservationIsLive ==
    (Returned /\ ret.op = "reset") =>
        /\ rawLog[Len(rawLog)].frame = sim_frame
        /\ heap[ret.obs].data[N_STEPS] =
              PooledValue(LiveFrames[IF Len(LiveFrames) >= 2 THEN Len(LiveFrames) - 1
                                     ELSE 1],
                          sim_frame)

\* C26, the part that holds: when the second scripted action did not end
\* the episode, the observation a reset returns is made from the last two
\* raw frames of the live episode.
C26_LiveWhenSecondActionDidNotEnd ==
    (Returned /\ ret.op = "reset" /\ rawLog[Len(rawLog)].op = "step") =>
        /\ rawLog[Len(rawLog)].frame = sim_frame
        /\ Len(LiveFrames) >= 2
        /\ heap[ret.obs].data[N_STEPS] =
              PooledValue(LiveFrames[Len(LiveFrames) - 1], sim_frame)

(***************************************************************************)
(* Claims about termination, staleness and the stored transitions, under   *)
(* SpecTrain                                                               *)
(***************************************************************************)

\* how far a position is from the end of its pass of the loop body
PcRank ==
    CASE pc = "gate" -> 7 [] pc = "sync" -> 6 [] pc = "learn" -> 5
      [] pc = "opt" -> 4 [] pc = "end" -> 3 [] pc = "loop" -> 2
      [] pc = "save" -> 1 [] OTHER -> 0

\* a number that every step of the training cell makes smaller: the frames
\* left, then the rest of the running pass
Remaining == 10 * (total_frames - frame_idx) + PcRank

\* C22: the cell takes at most total_frames environment steps, every step
\* brings it closer to its end and it is never stuck before the end, which
\* it reaches by the budget or as solved; the parameters are saved only
\* once the loop has ended, they are the online parameters after the last
\* update, and nothing is updated or saved after that.
C22_TerminatesAndSavesOnce ==
    /\ [](frame_idx <= total_frames /\ Len(stepLog) = frame_idx)
    /\ [](Remaining >= 0)
    /\ [][Remaining' < Remaining]_vars
    /\ [](pc # "done" => ENABLED TrainNext)
    /\ [](saved # <<>> <=> pc = "done")
    /\ [](pc \in {"save", "done"} => (solved \/ frame_idx = total_frames))
    /\ [](saved # <<>> => saved = <<q_params>>)
    /\ [][saved # <<>> => (saved' = saved /\ q_params' = q_params
                             /\ nUpdates' = nUpdates)]_vars

\* C22 witness: the cell has ended on its budget, not solved, with the
\* parameters of the last of several updates saved.
C22_Witness ==
    /\ pc = "done"
    /\ ~solved
    /\ frame_idx = total_frames
    /\ nUpdates >= 2
    /\ saved = <<q_params>>
    /\ q_params # q_init

\* the optimizer steps taken since the target network was last loaded
UpdatesSinceLoad == nUpdates - load.updates

\* C23: the target parameters are the online parameters as they were at
\* the last load, at construction or at the latest sync, and the online
\* parameters have had at most TARGET_UPDATE optimizer steps since.
C23_TargetStalenessBound ==
    /\ target_params = load.q
    /\ lastSync = 0 => load.q = q_init
    /\ UpdatesSinceLoad >= 0
    /\ UpdatesSinceLoad <= TARGET_UPDATE

\* C23 witness: a full sync period of updates since a sync in the loop,
\* the online parameters having moved away from the target's.
C23_Witness ==
    /\ lastSync > 0
    /\ UpdatesSinceLoad = TARGET_UPDATE
    /\ target_params # q_params
    /\ load.q # q_init

\* a target sync is due in the running iteration
SyncIteration == frame_idx % TARGET_UPDATE = 0

\* C24: in an iteration past the warm-up in which a sync is due, the sync
\* has taken place when the batch is sampled, so the targets of the update
\* are computed from the online parameters as they are just before the
\* optimizer step; between the computation of the targets and the end of
\* the iteration the target network is not written.
C24_SyncBeforeUpdate ==
    /\ []((pc = "opt" /\ SyncIteration) =>
            /\ lastSync = frame_idx
            /\ target_params = q_params
            /\ upd.q_before = q_params
            /\ \A i \in 1..BATCH_SIZE :
                  result.dones[i] = 0 =>
                     \E v \in -1..1 :
                        /\ IsBestValue(v, q_params, result.next_states[i])
                        /\ upd.expected[i] = 100 * result.rewards[i] + GAMMA_PCT * v)
    /\ []((pc = "end" /\ SyncIteration) =>
            (lastSync = frame_idx /\ target_params = upd.q_before))
    /\ [][upd.ran => (target_params' = target_params /\ lastSync' = lastSync)]_vars

\* C24 witness: the targets of a sync iteration are computed; the sync has
\* just changed the target network, and at the next_state of a sampled
\* non-terminal transition the old and the new target network differ.
C24_Witness ==
    /\ pc = "opt" /\ SyncIteration
    /\ q_params # q_init
    /\ \E i \in 1..BATCH_SIZE :
          /\ result.dones[i] = 0
          /\ \E v \in -1..1 :
                /\ IsBestValue(v, q_params, result.next_states[i])
                /\ ~IsBestValue(v, q_init, result.next_states[i])

\* the transition the store received last
Newest(buf) == buf[Len(buf)]

\* C25: every environment step appends exactly one transition: its state
\* is the observation the action was chosen from, its action the action
\* taken, and its reward, terminal flag and next_state are one answer of
\* the environment; the next action is chosen from next_state, or from a
\* reset observation after a terminal step, so that of two transitions
\* appended one after the other the second starts where the first ended.
C25_TransitionChain ==
    /\ [](\A i \in 1..(Len(buffer) - 1) :
            IF buffer[i].done THEN buffer[i + 1].state \in ResetObs
            ELSE buffer[i + 1].state = buffer[i].new_state)
    /\ [][frame_idx' # frame_idx =>
            /\ Len(stepLog') = Len(stepLog) + 1
            /\ buffer' # <<>>
            /\ \/ SubSeq(buffer', 1, Len(buffer') - 1) = buffer
               \/ /\ buffer # <<>>
                  /\ SubSeq(buffer', 1, Len(buffer') - 1) = Tail(buffer)
            /\ Newest(buffer').state = state
            /\ Newest(buffer').action = action'
            /\ Newest(buffer').reward = stepLog'[Len(stepLog')].reward
            /\ Newest(buffer').done = stepLog'[Len(stepLog')].done
            /\ [next_state |-> Newest(buffer').new_state,
                reward |-> Newest(buffer').reward,
                done |-> Newest(buffer').done] \in EnvResponses
            /\ IF Newest(buffer').done THEN state' \in ResetObs
               ELSE state' = Newest(buffer').new_state]_vars
    /\ [][frame_idx' = frame_idx => (buffer' = buffer /\ state' = state)]_vars

\* C25 witness: a store whose middle transition is terminal and ended at
\* an observation other than the one the next transition starts from.
C25_Witness ==
    /\ Len(buffer) = 3
    /\ ~buffer[1].done /\ buffer[2].state = buffer[1].new_state
    /\ buffer[1].new_state # buffer[1].state
    /\ buffer[2].done /\ buffer[3].state # buffer[2].new_state
    /\ frame_idx > REPLAY_MEMORY

\* the environment step whose transition stands at place i of the store
StepOf(i) == frame_idx - Len(buffer) + i

\* C27: after t environment steps the store holds min(t, capacity)
\* transitions, those of the most recent steps in their order; the first
\* update of the run is made in the iteration whose append filled the
\* store, and every batch is sampled from a full store.
C27_FullStoreBeforeLearning ==
    /\ [](/\ Len(buffer) = Min(frame_idx, REPLAY_MEMORY)
          /\ maxlen = REPLAY_MEMORY
          /\ \A i \in 1..Len(buffer) :
                /\ buffer[i].reward = stepLog[StepOf(i)].reward
                /\ buffer[i].done = stepLog[StepOf(i)].done
          /\ (pc = "learn" \/ result.status = "ok") => Len(buffer) = maxlen
          /\ nUpdates >= 1 => frame_idx >= REPLAY_MEMORY)
    /\ [][(nUpdates = 0 /\ nUpdates' # 0) =>
            /\ nUpdates' = 1
            /\ frame_idx = REPLAY_MEMORY
            /\ Len(buffer) = maxlen
            /\ buffer' = buffer]_vars
    /\ [][(asked' # asked /\ result'.status = "ok") =>
            /\ Len(buffer) = maxlen
            /\ \A j \in 1..Len(result'.states) :
                  \E i \in 1..Len(buffer) : result'.states[j] = buffer[i].state]_vars

\* C27 witness: a batch drawn from the full store after the oldest
\* transition was discarded and the first update was made.
C27_Witness ==
    /\ pc = "opt"
    /\ result.status = "ok"
    /\ frame_idx = REPLAY_MEMORY + 1
    /\ nUpdates = 1
    /\ Len(buffer) = REPLAY_MEMORY
    /\ stepLog[1].reward # buffer[1].reward

====
